---- MODULE Spec2Model ----
(***************************************************************************)
(* pwrusb: a daemon that watches a CyberPower UPS over USB.                *)
(*                                                                         *)
(* Tasks of src/main.rs modelled here:                                     *)
(*   - the uptime ticker            (main, lines 40-48)                    *)
(*   - the device locator           (main, lines 54-77)                    *)
(*   - one acquisition loop per matched device (sniff, lines 101-186)      *)
(*   - the HTTP responder           (list_info, lines 188-191)             *)
(* all sharing GLOBAL_STATE, a tokio RwLock<DaemonState>.                  *)
(*                                                                         *)
(* The RwLock is modelled by its holders (one writer or many readers) and   *)
(* by the queue in which tokio keeps the tasks waiting for it, served      *)
(* first in, first out.                                                    *)
(* device_descriptor() (line 55) is taken to succeed: libusb serves it     *)
(* from the descriptor cached at enumeration.                              *)
(***************************************************************************)
EXTENDS Integers, Sequences, FiniteSets, TLC

VARIABLES
    devices,      \* the USB device list returned by context.devices()
    state,        \* GLOBAL_STATE: the DaemonState record
    writer,       \* holder of the write lock, or Nobody
    readers,      \* holders of the read lock
    queue,        \* the tasks that have called write()/read(), in order
    tpc,          \* ticker: position in its loop
    mpc,          \* main: position in the enumeration loop
    idx,          \* main: index of the device being examined
    lpc,          \* per device: position of its sniff task
    in_endpoint,  \* per device: the (address, transfer type) sniff bound
    result,       \* per device: the `result` of the last read
    rpc,          \* per request: position of list_info
    response,     \* per request: the (status, body) being returned
    observed,     \* history: per tag, what the last report with it carried
    last          \* history: per device, how its last loop iteration ended

vars == <<devices, state, writer, readers, queue, tpc, mpc, idx, lpc,
          in_endpoint, result, rpc, response, observed, last>>

\* lock holders are named by tuples; Nobody holds a free write lock
Nobody == <<>>
TickerTask == <<"ticker">>
MainTask == <<"main">>
SniffTask(d) == <<"sniff", d>>
RequestTask(r) == <<"list_info", r>>

----------------------------------------------------------------------------
(* Bounds *)

MaxLen == 3        \* longest report a read returns (stands for the 64 of buf)
MaxUptime == 1     \* the ticker takes no more ticks once uptime reaches this
MaxRequests == 1   \* concurrent HTTP requests
MaxDevices == 3    \* longest device list

----------------------------------------------------------------------------
(* Strings are sequences of characters; NUL is the null character. *)

NUL == "NUL"
UNKNOWN == <<"<", "u", "n", "k", "n", "o", "w", "n", ">">>
CPS == <<"C", "P", "S">>

\* str::contains
Contains(s, sub) ==
    \E i \in 1..(Len(s) - Len(sub) + 1) : SubSeq(s, i, i + Len(sub) - 1) = sub

\* str::trim_end_matches('\0')
RECURSIVE trim_end_matches(_)
trim_end_matches(s) ==
    IF Len(s) > 0 /\ s[Len(s)] = NUL
    THEN trim_end_matches(SubSeq(s, 1, Len(s) - 1))
    ELSE s

\* format!("{} {}", manufacturer, product)
format(manufacturer, product) == manufacturer \o <<" ">> \o product

\* Result<T, E> and Option<T>
Ok(x) == [ok |-> TRUE, val |-> x]
Err(e) == [ok |-> FALSE, err |-> e]
Some(x) == [some |-> TRUE, val |-> x]
NoneOpt == [some |-> FALSE]

unwrap_or(r, default) == IF r.ok THEN r.val ELSE default

\* get_device_name: Err when the device cannot be opened, else the two
\* descriptor strings, each falling back to "<unknown>"
get_device_name(dev) ==
    IF ~dev.open_ok THEN Err("open")
    ELSE Ok(format(unwrap_or(dev.manufacturer, UNKNOWN),
                   unwrap_or(dev.product, UNKNOWN)))

\* main, line 58
name(dev) == unwrap_or(get_device_name(dev), UNKNOWN)

\* faulty variant: the manufacturer string alone is searched, opened or not
MatchesManufacturer(dev) == Contains(unwrap_or(dev.manufacturer, UNKNOWN), CPS)

\* main, line 60
Matches(dev) == Contains(name(dev), CPS)

----------------------------------------------------------------------------
(* The USB environment: reports and devices *)

Tags == {7, 8, 11, 25, 29}
Data == {0, 1}

RECURSIVE SeqsUpTo(_, _)
SeqsUpTo(S, n) ==
    IF n = 0 THEN {<<>>}
    ELSE LET shorter == SeqsUpTo(S, n - 1)
         IN  shorter \cup {Append(s, x) : s \in {t \in shorter : Len(t) = n - 1}, x \in S}

\* what a read can put in buf[..n], 0 < n <= MaxLen: a tag and n-1 more bytes
Reports(tags) == {<<t>> \o p : t \in tags, p \in SeqsUpTo(Data, MaxLen - 1)}

Bulk == "Bulk"
Interrupt == "Interrupt"
Isochronous == "Isochronous"
In == "In"
Out == "Out"

Endpoint(a, d, t) == [address |-> a, direction |-> d, transfer_type |-> t]

\* one interface, one alternate setting, the given endpoints
Config(eps) == <<  << eps >>  >>

Device(vid, pid, open, man, prod, sn, cfg, reps) ==
    [vendor_id |-> vid, product_id |-> pid, open_ok |-> open,
     manufacturer |-> man, product |-> prod,
     sniff |-> sn, config |-> cfg, reports |-> reps]

\* outcomes of the calls sniff makes before its loop (lines 102-110)
SniffOk == [open |-> TRUE, kernel_driver_active |-> Ok(TRUE), detach |-> TRUE,
            claim |-> TRUE, config |-> TRUE]

Ups1 ==
    Device(1892, 1281, TRUE, Ok(<<"C", "P", "S">>),
           Ok(<<"U", "P", "S", NUL, NUL>>),
           SniffOk,
           Config(<<Endpoint(1, Out, Interrupt), Endpoint(129, In, Interrupt)>>),
           Reports(Tags \ {29}))

\* a unit that sends the two 16-bit quantities only
Ups7 ==
    Device(1892, 1282, TRUE, Ok(<<"C", "P", "S">>), Ok(<<"1">>),
           SniffOk,
           Config(<<Endpoint(129, In, Interrupt)>>),
           Reports({25, 29}))

\* two more units of the same make, each sending a few reports only
Ups2 ==
    Device(1892, 1537, TRUE, Ok(<<"C", "P", "S">>), Ok(<<"2">>),
           [SniffOk EXCEPT !.kernel_driver_active = Ok(FALSE)],
           Config(<<Endpoint(130, In, Bulk)>>),
           {<<8, 1>>, <<8>>, <<25, 0, 1>>})

Ups3 ==
    Device(1892, 1538, TRUE, Ok(<<"C", "P", "S">>), Ok(<<"3">>),
           SniffOk,
           Config(<<Endpoint(129, In, Interrupt)>>),
           {<<8, 0>>, <<29, 1, 1>>, <<11>>})

Hub ==
    Device(7531, 2, TRUE, Ok(<<"L", "F">>), Err("string"), SniffOk,
           Config(<<>>), {})

Locked ==
    Device(1892, 9, FALSE, Ok(<<"C", "P", "S">>), Ok(<<"X">>), SniffOk,
           Config(<<>>), {})

\* a unit with two interfaces, the second with two alternate settings; its
\* last inbound endpoint is neither its first inbound nor its last endpoint
Ups4 ==
    Device(1892, 1539, TRUE, Ok(<<"C", "P", "S">>), Ok(<<"4">>),
           SniffOk,
           << << <<Endpoint(129, In, Interrupt), Endpoint(1, Out, Interrupt)>> >>,
              << <<Endpoint(130, In, Bulk)>>,
                 <<Endpoint(131, In, Interrupt), Endpoint(2, Out, Bulk)>> >> >>,
           {<<25, 1, 0>>})

\* a unit whose last inbound endpoint is isochronous
UpsIso ==
    Device(1892, 1540, TRUE, Ok(<<"C", "P", "S">>), Ok(<<"5">>),
           SniffOk,
           Config(<<Endpoint(129, In, Interrupt), Endpoint(131, In, Isochronous)>>),
           {<<8, 1>>})

\* a unit with no inbound endpoint
NoIn ==
    Device(1892, 1541, TRUE, Ok(<<"C", "P", "S">>), Ok(<<"6">>),
           SniffOk,
           Config(<<Endpoint(1, Out, Interrupt), Endpoint(2, Out, Bulk)>>),
           {<<8, 1>>})

\* units on which one of the calls before the loop is refused
Refusing(pid, sn) ==
    Device(1892, pid, TRUE, Ok(<<"C", "P", "S">>), Ok(<<"7">>), sn,
           Config(<<Endpoint(129, In, Interrupt)>>), {<<8, 1>>})

BadOpen == Refusing(1542, [SniffOk EXCEPT !.open = FALSE])
BadKda == Refusing(1543, [SniffOk EXCEPT !.kernel_driver_active = Err("Io")])
BadDetach == Refusing(1544, [SniffOk EXCEPT !.detach = FALSE])
BadClaim == Refusing(1545, [SniffOk EXCEPT !.claim = FALSE])
BadConfig == Refusing(1546, [SniffOk EXCEPT !.config = FALSE])

\* two units with two reports each, for the runs under fair scheduling
Ups5 ==
    Device(1892, 1547, TRUE, Ok(<<"C", "P", "S">>), Ok(<<"8">>),
           SniffOk, Config(<<Endpoint(129, In, Interrupt)>>),
           {<<8, 1>>, <<8>>})

Ups6 ==
    Device(1892, 1548, TRUE, Ok(<<"C", "P", "S">>), Ok(<<"9">>),
           SniffOk, Config(<<Endpoint(130, In, Bulk)>>),
           {<<8, 0>>, <<11>>})

DeviceLists ==
    {l \in { <<>>, <<Hub>>, <<Ups1>>, <<Ups7>>, <<Hub, Locked, Ups2>>, <<Ups2, Ups3>>,
             <<Ups4>>, <<UpsIso>>, <<NoIn, Ups3>>, <<BadOpen, BadKda, Ups3>>,
             <<BadDetach, BadClaim, BadConfig>>, <<Ups5, Ups6>> } :
        Len(l) <= MaxDevices}

----------------------------------------------------------------------------
(* sniff, before its loop *)

RECURSIVE Concat(_)
Concat(ss) == IF ss = <<>> THEN <<>> ELSE Head(ss) \o Concat(Tail(ss))

\* the endpoint descriptors in the order of the three nested for loops
\* (lines 113-115): interfaces, their descriptors, their endpoints
EndpointsInOrder(config) == Concat(Concat(config))

\* faulty variant: the first inbound endpoint is kept
RECURSIVE FindInEndpointFirst(_, _)
FindInEndpointFirst(eps, found) ==
    IF eps = <<>> THEN found
    ELSE FindInEndpointFirst(Tail(eps),
                             IF Head(eps).direction = In /\ ~found.some
                             THEN Some(<<Head(eps).address, Head(eps).transfer_type>>)
                             ELSE found)

\* lines 111-127: every inbound endpoint overwrites in_endpoint
RECURSIVE FindInEndpoint(_, _)
FindInEndpoint(eps, found) ==
    IF eps = <<>> THEN found
    ELSE FindInEndpoint(Tail(eps),
                        IF Head(eps).direction = In
                        THEN Some(<<Head(eps).address, Head(eps).transfer_type>>)
                        ELSE found)

\* faulty variant: the outcome of claim_interface is dropped
BindUnclaimed(dev) ==
    IF ~dev.sniff.open THEN Err("open")
    ELSE IF ~dev.sniff.kernel_driver_active.ok THEN Err("kernel_driver_active")
    ELSE IF dev.sniff.kernel_driver_active.val /\ ~dev.sniff.detach
         THEN Err("detach_kernel_driver")
    ELSE IF ~dev.sniff.config THEN Err("active_config_descriptor")
    ELSE Ok(FindInEndpoint(EndpointsInOrder(dev.config), NoneOpt))

\* lines 102-110: each `?` returns the error to the caller
Bind(dev) ==
    IF ~dev.sniff.open THEN Err("open")
    ELSE IF ~dev.sniff.kernel_driver_active.ok THEN Err("kernel_driver_active")
    ELSE IF dev.sniff.kernel_driver_active.val /\ ~dev.sniff.detach
         THEN Err("detach_kernel_driver")
    ELSE IF ~dev.sniff.claim THEN Err("claim_interface")
    ELSE IF ~dev.sniff.config THEN Err("active_config_descriptor")
    ELSE Ok(FindInEndpoint(EndpointsInOrder(dev.config), NoneOpt))

----------------------------------------------------------------------------
(* The Report Decoder: lines 150-168, as a function of the record and the *)
(* bytes a = buf[..n].  a[k] of the source is a[k+1] here.  Indexing past *)
(* the end of a panics; the write guard is then dropped by the unwinding. *)

Panic == [panic |-> TRUE]

\* the tags that take the write lock
Recognized(a) == a[1] \in {8, 25, 29}

\* faulty variant: tag 11 is taken for a battery report
DecodeTag11AsBattery(st, a) ==
    IF a[1] \in {8, 11} THEN
        IF Len(a) < 2 THEN Panic
        ELSE [st EXCEPT !.battery_capacity = a[2]]
    ELSE IF a[1] = 25 THEN
        IF Len(a) < 3 THEN Panic
        ELSE [st EXCEPT !.output_wattage = a[2] + (a[3] * 256)]
    ELSE IF a[1] = 29 THEN
        IF Len(a) < 3 THEN Panic
        ELSE [st EXCEPT !.output_va = a[2] + (a[3] * 256)]
    ELSE st

\* faulty variant: += in place of =
DecodeAccumulate(st, a) ==
    IF a[1] = 8 THEN
        IF Len(a) < 2 THEN Panic
        ELSE [st EXCEPT !.battery_capacity = @ + a[2]]
    ELSE IF a[1] = 25 THEN
        IF Len(a) < 3 THEN Panic
        ELSE [st EXCEPT !.output_wattage = @ + a[2] + (a[3] * 256)]
    ELSE IF a[1] = 29 THEN
        IF Len(a) < 3 THEN Panic
        ELSE [st EXCEPT !.output_va = @ + a[2] + (a[3] * 256)]
    ELSE st

\* faulty variant: a field that has a value keeps it (first write wins)
DecodeKeepsFirst(st, a) ==
    IF a[1] = 8 THEN
        IF Len(a) < 2 THEN Panic
        ELSE IF st.battery_capacity # 0 THEN st
        ELSE [st EXCEPT !.battery_capacity = a[2]]
    ELSE IF a[1] = 25 THEN
        IF Len(a) < 3 THEN Panic
        ELSE IF st.output_wattage # 0 THEN st
        ELSE [st EXCEPT !.output_wattage = a[2] + (a[3] * 256)]
    ELSE IF a[1] = 29 THEN
        IF Len(a) < 3 THEN Panic
        ELSE IF st.output_va # 0 THEN st
        ELSE [st EXCEPT !.output_va = a[2] + (a[3] * 256)]
    ELSE st

Decode(st, a) ==
    IF a[1] = 8 THEN
        IF Len(a) < 2 THEN Panic
        ELSE [st EXCEPT !.battery_capacity = a[2]]
    ELSE IF a[1] = 25 THEN
        IF Len(a) < 3 THEN Panic
        ELSE [st EXCEPT !.output_wattage = a[2] + (a[3] * 256)]
    ELSE IF a[1] = 29 THEN
        IF Len(a) < 3 THEN Panic
        ELSE [st EXCEPT !.output_va = a[2] + (a[3] * 256)]
    ELSE st

----------------------------------------------------------------------------
(* History kept for the properties: the value a report carries for its    *)
(* field by the protocol table (tag 8: byte 1; tags 25 and 29: byte 1 +   *)
(* byte 2 * 256), or NoneOpt when the report is too short to hold it.     *)

Carried(a) ==
    IF a[1] = 8
    THEN IF Len(a) >= 2 THEN Some(a[2]) ELSE NoneOpt
    ELSE IF Len(a) >= 3 THEN Some(a[2] + a[3] * 256) ELSE NoneOpt

----------------------------------------------------------------------------
(* Initial state *)

\* faulty variant: the record starts as "running"
GLOBAL_STATE_Running ==
    [uptime |-> 0, status |-> "running", vendor_id |-> 0, product_id |-> 0,
     device_name |-> <<>>, battery_capacity |-> 0, output_wattage |-> 0,
     output_va |-> 0]

\* lines 23-34
GLOBAL_STATE ==
    [uptime |-> 0, status |-> "starting", vendor_id |-> 0, product_id |-> 0,
     device_name |-> <<>>, battery_capacity |-> 0, output_wattage |-> 0,
     output_va |-> 0]

Devs == DOMAIN devices
Requests == 1..MaxRequests

NoResult == Err("unset")
NoResponse == [code |-> 0, body |-> NoneOpt]

Init ==
    /\ devices \in DeviceLists
    /\ state = GLOBAL_STATE
    /\ writer = Nobody
    /\ readers = {}
    /\ queue = <<>>
    /\ tpc = "spawned"
    /\ mpc = "examine"
    /\ idx = 1
    /\ lpc = [d \in DOMAIN devices |-> "unborn"]
    /\ in_endpoint = [d \in DOMAIN devices |-> NoneOpt]
    /\ result = [d \in DOMAIN devices |-> NoResult]
    /\ rpc = [r \in Requests |-> "idle"]
    /\ response = [r \in Requests |-> NoResponse]
    /\ observed = [t \in {8, 25, 29} |-> NoneOpt]
    /\ last = [d \in DOMAIN devices |-> <<>>]

LockFree == writer = Nobody /\ readers = {}

\* the task calls write(), blocking_write() or read(): it takes its place
\* behind the tasks already waiting
Enqueue(who) == queue' = Append(queue, who)

\* the task waiting longest
First(who) == queue # <<>> /\ Head(queue) = who

\* faulty variant: a writer that does not wait for the readers
AcquireWriteOverReaders(who) ==
    /\ First(who)
    /\ writer = Nobody
    /\ writer' = who
    /\ queue' = Tail(queue)
    /\ UNCHANGED readers

\* GLOBAL_STATE.write() / blocking_write() returns the guard
AcquireWrite(who) ==
    /\ First(who)
    /\ LockFree
    /\ writer' = who
    /\ queue' = Tail(queue)
    /\ UNCHANGED readers

\* the write guard goes out of scope
ReleaseWrite(who) ==
    /\ writer = who
    /\ writer' = Nobody
    /\ UNCHANGED readers

\* GLOBAL_STATE.read() returns the guard
AcquireRead(r) ==
    /\ First(RequestTask(r))
    /\ writer = Nobody
    /\ readers' = readers \cup {r}
    /\ queue' = Tail(queue)
    /\ UNCHANGED writer

ReleaseRead(r) ==
    /\ readers' = readers \ {r}
    /\ UNCHANGED writer

----------------------------------------------------------------------------
(* The uptime ticker, lines 40-48 *)

\* line 43: write() returns
TickAcquire ==
    /\ tpc = "lock"
    /\ AcquireWrite(TickerTask)
    /\ tpc' = "incr"
    /\ UNCHANGED <<devices, state, mpc, idx, lpc, in_endpoint, result, rpc,
                   response, observed, last>>

\* faulty variant: two seconds per tick
TickIncrTwice ==
    /\ tpc = "incr"
    /\ state' = [state EXCEPT !.uptime = @ + 2]
    /\ tpc' = "unlock"
    /\ UNCHANGED <<devices, writer, readers, mpc, idx, lpc, in_endpoint,
                   result, rpc, response, observed, last, queue>>

TickIncr ==
    /\ tpc = "incr"
    /\ state' = [state EXCEPT !.uptime = @ + 1]
    /\ tpc' = "unlock"
    /\ UNCHANGED <<devices, writer, readers, mpc, idx, lpc, in_endpoint,
                   result, rpc, response, observed, last, queue>>

\* faulty variant: the guard lives to the end of the loop body, so the
\* ticker sleeps with the write lock held
TickReleaseAfterSleep ==
    /\ tpc = "unlock"
    /\ writer = TickerTask
    /\ tpc' = "sleep"
    /\ UNCHANGED <<devices, state, writer, readers, mpc, idx, lpc,
                   in_endpoint, result, rpc, response, observed, last, queue>>

TickRelease ==
    /\ tpc = "unlock"
    /\ ReleaseWrite(TickerTask)
    /\ tpc' = "sleep"
    /\ UNCHANGED <<devices, state, mpc, idx, lpc, in_endpoint, result, rpc,
                   response, observed, last, queue>>

\* the spawned task is first run, or tokio::time::sleep (line 46) returns:
\* the ticker calls write() (the model stops the clock at MaxUptime)
TickWake ==
    /\ tpc \in {"spawned", "sleep"}
    /\ state.uptime < MaxUptime
    /\ tpc' = "lock"
    /\ Enqueue(TickerTask)
    /\ UNCHANGED <<devices, state, writer, readers, mpc, idx, lpc,
                   in_endpoint, result, rpc, response, observed, last>>

Ticker == TickAcquire \/ TickIncr \/ TickRelease \/ TickWake

----------------------------------------------------------------------------
(* The device locator: the for loop of main, lines 54-77 *)

\* the loop moves to the next device, or on to the HTTP server
NextDevice ==
    /\ idx' = idx + 1
    /\ mpc' = IF idx + 1 > Len(devices) THEN "serve" ELSE "examine"

\* an empty device list
LocNone ==
    /\ mpc = "examine"
    /\ idx > Len(devices)
    /\ mpc' = "serve"
    /\ UNCHANGED <<devices, state, writer, readers, tpc, idx, lpc,
                   in_endpoint, result, rpc, response, observed, last, queue>>

\* faulty variant: get_device_name(..)? in place of unwrap_or, so that a
\* device that cannot be opened ends main
LocSkipPropagates ==
    /\ mpc = "examine"
    /\ idx <= Len(devices)
    /\ ~Matches(devices[idx])
    /\ IF get_device_name(devices[idx]).ok
       THEN NextDevice
       ELSE mpc' = "exit" /\ UNCHANGED idx
    /\ UNCHANGED <<devices, state, writer, readers, tpc, lpc, in_endpoint,
                   result, rpc, response, observed, last, queue>>

\* lines 55-60, the name does not contain "CPS"
LocSkip ==
    /\ mpc = "examine"
    /\ idx <= Len(devices)
    /\ ~Matches(devices[idx])
    /\ NextDevice
    /\ UNCHANGED <<devices, state, writer, readers, tpc, lpc, in_endpoint,
                   result, rpc, response, observed, last, queue>>

\* lines 55-62, the name contains "CPS": main calls write()
LocMatch ==
    /\ mpc = "examine"
    /\ idx <= Len(devices)
    /\ Matches(devices[idx])
    /\ mpc' = "lock"
    /\ Enqueue(MainTask)
    /\ UNCHANGED <<devices, state, writer, readers, tpc, idx, lpc,
                   in_endpoint, result, rpc, response, observed, last>>

\* line 62
LocAcquire ==
    /\ mpc = "lock"
    /\ AcquireWrite(MainTask)
    /\ mpc' = "status"
    /\ UNCHANGED <<devices, state, tpc, idx, lpc, in_endpoint, result, rpc,
                   response, observed, last>>

\* lines 63-66, one assignment at a time
LocWrite ==
    /\ mpc \in {"status", "device_name", "vendor_id", "product_id"}
    /\ \/ /\ mpc = "status"
          /\ state' = [state EXCEPT !.status = "running"]
          /\ mpc' = "device_name"
       \/ /\ mpc = "device_name"
          /\ state' = [state EXCEPT
                         !.device_name = trim_end_matches(name(devices[idx]))]
          /\ mpc' = "vendor_id"
       \/ /\ mpc = "vendor_id"
          /\ state' = [state EXCEPT !.vendor_id = devices[idx].vendor_id]
          /\ mpc' = "product_id"
       \/ /\ mpc = "product_id"
          /\ state' = [state EXCEPT !.product_id = devices[idx].product_id]
          /\ mpc' = "unlock"
    /\ UNCHANGED <<devices, writer, readers, tpc, idx, lpc, in_endpoint,
                   result, rpc, response, observed, last, queue>>

\* line 67
LocRelease ==
    /\ mpc = "unlock"
    /\ ReleaseWrite(MainTask)
    /\ mpc' = "spawn"
    /\ UNCHANGED <<devices, state, tpc, idx, lpc, in_endpoint, result, rpc,
                   response, observed, last, queue>>

\* lines 72-75: spawn_blocking starts the device's sniff task
LocSpawn ==
    /\ mpc = "spawn"
    /\ lpc' = [lpc EXCEPT ![idx] = "bind"]
    /\ NextDevice
    /\ UNCHANGED <<devices, state, writer, readers, tpc, in_endpoint, result,
                   rpc, response, observed, last, queue>>

Locator ==
    LocNone \/ LocSkip \/ LocMatch \/ LocAcquire \/ LocWrite \/ LocRelease
    \/ LocSpawn

----------------------------------------------------------------------------
(* The acquisition loop of one matched device: sniff, lines 101-186 *)

\* lines 102-129: a `?` makes sniff return Err, which the task's expect
\* (line 74) turns into a panic; no inbound endpoint panics at line 129
LoopBind(d) ==
    /\ d \in Devs
    /\ lpc[d] = "bind"
    /\ LET b == Bind(devices[d])
       IN  IF ~b.ok \/ ~b.val.some
           THEN /\ lpc' = [lpc EXCEPT ![d] = "failed"]
                /\ UNCHANGED in_endpoint
           ELSE /\ lpc' = [lpc EXCEPT ![d] = "waiting"]
                /\ in_endpoint' = [in_endpoint EXCEPT ![d] = b.val]
    /\ UNCHANGED <<devices, state, writer, readers, tpc, mpc, idx, result,
                   rpc, response, observed, last, queue>>

Timeout == Err("Timeout")
Other == Err("Other")

\* faulty variant: every transfer type is read
ReadResultsAnyType(d) ==
    {Ok(a) : a \in devices[d].reports} \cup {Ok(<<>>), Timeout, Other}

\* lines 135-139: what the timed read can return for the bound endpoint
ReadResults(d) ==
    IF in_endpoint[d].val[2] \in {Bulk, Interrupt}
    THEN {Ok(a) : a \in devices[d].reports} \cup {Ok(<<>>), Timeout, Other}
    ELSE {Other}

\* lines 133-139: the read returns; with a report of tag 8, 25 or 29 the
\* loop goes on to call blocking_write()
LoopRead(d) ==
    /\ d \in Devs
    /\ lpc[d] = "waiting"
    /\ \E res \in ReadResults(d) :
         /\ result' = [result EXCEPT ![d] = res]
         /\ observed' = IF res.ok /\ res.val # <<>>
                           /\ res.val[1] \in DOMAIN observed
                        THEN [observed EXCEPT
                                ![res.val[1]] = Some(Carried(res.val))]
                        ELSE observed
         /\ queue' = IF res.ok /\ res.val # <<>> /\ Recognized(res.val)
                     THEN Append(queue, SniffTask(d))
                     ELSE queue
    /\ lpc' = [lpc EXCEPT ![d] = "match"]
    /\ last' = [last EXCEPT ![d] = <<>>]
    /\ UNCHANGED <<devices, state, writer, readers, tpc, mpc, idx,
                   in_endpoint, rpc, response>>

\* line 176: Ok(0)
LoopEmpty(d) ==
    /\ d \in Devs
    /\ lpc[d] = "match"
    /\ result[d] = Ok(<<>>)
    /\ lpc' = [lpc EXCEPT ![d] = "waiting"]
    /\ result' = [result EXCEPT ![d] = NoResult]
    /\ last' = [last EXCEPT ![d] = <<"empty">>]
    /\ UNCHANGED <<devices, state, writer, readers, tpc, mpc, idx,
                   in_endpoint, rpc, response,
                   observed, queue>>

\* faulty variant: a timeout breaks out of the loop like any other error
LoopTimeoutBreaks(d) ==
    /\ d \in Devs
    /\ lpc[d] = "match"
    /\ result[d] = Timeout
    /\ lpc' = [lpc EXCEPT ![d] = "stopped"]
    /\ result' = [result EXCEPT ![d] = NoResult]
    /\ last' = [last EXCEPT ![d] = <<"timeout">>]
    /\ UNCHANGED <<devices, state, writer, readers, tpc, mpc, idx,
                   in_endpoint, rpc, response, observed, queue>>

\* line 177: Err(Timeout)
LoopTimeout(d) ==
    /\ d \in Devs
    /\ lpc[d] = "match"
    /\ result[d] = Timeout
    /\ lpc' = [lpc EXCEPT ![d] = "waiting"]
    /\ result' = [result EXCEPT ![d] = NoResult]
    /\ last' = [last EXCEPT ![d] = <<"timeout">>]
    /\ UNCHANGED <<devices, state, writer, readers, tpc, mpc, idx,
                   in_endpoint, rpc, response,
                   observed, queue>>

\* faulty variant: the error is logged and the read retried
LoopErrorRetries(d) ==
    /\ d \in Devs
    /\ lpc[d] = "match"
    /\ result[d] = Other
    /\ lpc' = [lpc EXCEPT ![d] = "waiting"]
    /\ result' = [result EXCEPT ![d] = NoResult]
    /\ last' = [last EXCEPT ![d] = <<"error">>]
    /\ UNCHANGED <<devices, state, writer, readers, tpc, mpc, idx,
                   in_endpoint, rpc, response, observed, queue>>

\* faulty variant: a loop that stops puts the status back to "starting"
LoopErrorResetsStatus(d) ==
    /\ d \in Devs
    /\ lpc[d] = "match"
    /\ result[d] = Other
    /\ lpc' = [lpc EXCEPT ![d] = "stopped"]
    /\ result' = [result EXCEPT ![d] = NoResult]
    /\ last' = [last EXCEPT ![d] = <<"error">>]
    /\ state' = [state EXCEPT !.status = "starting"]
    /\ UNCHANGED <<devices, writer, readers, tpc, mpc, idx, in_endpoint,
                   rpc, response, observed, queue>>

\* lines 178-181 and 185: any other error breaks out of the loop
LoopError(d) ==
    /\ d \in Devs
    /\ lpc[d] = "match"
    /\ result[d] = Other
    /\ lpc' = [lpc EXCEPT ![d] = "stopped"]
    /\ result' = [result EXCEPT ![d] = NoResult]
    /\ last' = [last EXCEPT ![d] = <<"error">>]
    /\ UNCHANGED <<devices, state, writer, readers, tpc, mpc, idx,
                   in_endpoint, rpc, response,
                   observed, queue>>

\* lines 142-175 for a tag other than 8, 25, 29: no branch is taken
LoopIgnore(d) ==
    /\ d \in Devs
    /\ lpc[d] = "match"
    /\ result[d].ok
    /\ result[d].val # <<>>
    /\ ~Recognized(result[d].val)
    /\ state' = Decode(state, result[d].val)
    /\ lpc' = [lpc EXCEPT ![d] = "waiting"]
    /\ result' = [result EXCEPT ![d] = NoResult]
    /\ last' = [last EXCEPT ![d] = <<"ignored", result[d].val[1]>>]
    /\ UNCHANGED <<devices, writer, readers, tpc, mpc, idx, in_endpoint,
                   rpc, response,
                   observed, queue>>

\* lines 155, 160, 165: blocking_write
LoopAcquire(d) ==
    /\ d \in Devs
    /\ lpc[d] = "match"
    /\ result[d].ok
    /\ result[d].val # <<>>
    /\ Recognized(result[d].val)
    /\ AcquireWrite(SniffTask(d))
    /\ lpc' = [lpc EXCEPT ![d] = "write"]
    /\ UNCHANGED <<devices, state, tpc, mpc, idx, in_endpoint, result, rpc,
                   response, observed, last>>

\* lines 156, 161, 166: the assignment; an index past the end of a panics
\* and the unwinding drops the guard
LoopWrite(d) ==
    /\ d \in Devs
    /\ lpc[d] = "write"
    /\ LET st == Decode(state, result[d].val)
       IN  IF st = Panic
           THEN /\ lpc' = [lpc EXCEPT ![d] = "panicked"]
                /\ ReleaseWrite(SniffTask(d))
                /\ result' = [result EXCEPT ![d] = NoResult]
                /\ last' = [last EXCEPT ![d] = <<"panic", result[d].val[1]>>]
                /\ UNCHANGED state
           ELSE /\ lpc' = [lpc EXCEPT ![d] = "unlock"]
                /\ state' = st
                /\ UNCHANGED <<writer, readers, result, last>>
    /\ UNCHANGED <<devices, tpc, mpc, idx, in_endpoint, rpc, response,
                   observed, queue>>

\* faulty variant: the guard outlives the if block and is still held when
\* the loop reads again
LoopReleaseKeepsGuard(d) ==
    /\ d \in Devs
    /\ lpc[d] = "unlock"
    /\ writer = SniffTask(d)
    /\ lpc' = [lpc EXCEPT ![d] = "waiting"]
    /\ last' = [last EXCEPT ![d] = <<"decoded", result[d].val[1]>>]
    /\ result' = [result EXCEPT ![d] = NoResult]
    /\ UNCHANGED <<devices, state, writer, readers, tpc, mpc, idx,
                   in_endpoint, rpc, response, observed, queue>>

\* lines 158, 163, 168: the guard is dropped, the loop reads again
LoopRelease(d) ==
    /\ d \in Devs
    /\ lpc[d] = "unlock"
    /\ ReleaseWrite(SniffTask(d))
    /\ lpc' = [lpc EXCEPT ![d] = "waiting"]
    /\ last' = [last EXCEPT ![d] = <<"decoded", result[d].val[1]>>]
    /\ result' = [result EXCEPT ![d] = NoResult]
    /\ UNCHANGED <<devices, state, tpc, mpc, idx, in_endpoint, rpc,
                   response,
                   observed, queue>>

sniff(d) ==
    LoopBind(d) \/ LoopRead(d) \/ LoopEmpty(d) \/ LoopTimeout(d)
    \/ LoopError(d) \/ LoopIgnore(d) \/ LoopAcquire(d) \/ LoopWrite(d)
    \/ LoopRelease(d)

----------------------------------------------------------------------------
(* The responder: list_info, lines 188-191, served once main reaches *)
(* axum::serve (line 82)                                              *)

Request(r) ==
    /\ mpc = "serve"
    /\ rpc[r] = "idle"
    /\ rpc' = [rpc EXCEPT ![r] = "lock"]
    /\ Enqueue(RequestTask(r))
    /\ UNCHANGED <<devices, state, writer, readers, tpc, mpc, idx, lpc,
                   in_endpoint, result, response, observed, last>>

\* line 189
ReadAcquire(r) ==
    /\ rpc[r] = "lock"
    /\ AcquireRead(r)
    /\ rpc' = [rpc EXCEPT ![r] = "clone"]
    /\ UNCHANGED <<devices, state, tpc, mpc, idx, lpc, in_endpoint, result,
                   response, observed, last>>

\* line 190: (StatusCode::OK, Json(state.clone()))
ReadClone(r) ==
    /\ rpc[r] = "clone"
    /\ response' = [response EXCEPT ![r] = [code |-> 200, body |-> state]]
    /\ rpc' = [rpc EXCEPT ![r] = "return"]
    /\ UNCHANGED <<devices, state, writer, readers, tpc, mpc, idx, lpc,
                   in_endpoint, result, observed, last, queue>>

\* line 191: the read guard is dropped and the response goes out
ReadReturn(r) ==
    /\ rpc[r] = "return"
    /\ ReleaseRead(r)
    /\ response' = [response EXCEPT ![r] = NoResponse]
    /\ rpc' = [rpc EXCEPT ![r] = "idle"]
    /\ UNCHANGED <<devices, state, tpc, mpc, idx, lpc, in_endpoint, result,
                   observed, last, queue>>

list_info(r) == Request(r) \/ ReadAcquire(r) \/ ReadClone(r) \/ ReadReturn(r)

----------------------------------------------------------------------------

Next ==
    \/ Ticker
    \/ Locator
    \/ \E d \in 1..MaxDevices : sniff(d)
    \/ \E r \in Requests : list_info(r)

Spec == Init /\ [][Next]_vars

----------------------------------------------------------------------------
(* Scheduling.  Every step of the program is taken in the end: between    *)
(* taking and dropping a guard no task awaits anything, a timed read       *)
(* returns within its 300 ms and the sleep within its second, and the lock *)
(* is handed to the first task of the queue as soon as it is free for it.  *)
(* Requests come from outside and need never come.                         *)

LiveDeviceLists == {l \in DeviceLists : l \in {<<>>, <<Hub>>, <<Ups5, Ups6>>}}

\* the indices of the devices of the longest of these lists
LiveUnits == DOMAIN <<Ups5, Ups6>>

LiveInit == Init /\ devices \in LiveDeviceLists

Fairness ==
    /\ WF_vars(Ticker)
    /\ WF_vars(Locator)
    /\ \A d \in 1..MaxDevices : WF_vars(sniff(d))
    /\ \A r \in Requests :
          WF_vars(ReadAcquire(r) \/ ReadClone(r) \/ ReadReturn(r))

LiveSpec == LiveInit /\ [][Next]_vars /\ Fairness

----------------------------------------------------------------------------
(* Properties *)

\* loop d holds a report of n > 0 bytes it has not finished decoding
Decoding(d) ==
    /\ lpc[d] \in {"match", "write"}
    /\ result[d].ok
    /\ result[d].val # <<>>

\* the step in which loop d decodes the report it holds: the assignment
\* under the lock, or the fall through the three ifs
DecodeStep(d) == Decoding(d) /\ lpc'[d] \notin {"match", "write"}

Tag(d) == result[d].val[1]

\* no report is in flight in loop d
Quiescent(d) == lpc[d] \in {"unborn", "bind", "failed", "waiting", "stopped", "panicked"}

Matched == {d \in Devs : Matches(devices[d])}

\* C1: for every report with tag 8, the decode step sets battery_capacity
\* to byte 1 of the report and changes no other field of the record.
C1_Tag8SetsBatteryCapacity ==
    [][\A d \in Devs :
         (DecodeStep(d) /\ Tag(d) = 8) =>
             /\ Len(result[d].val) >= 2
             /\ state' = [state EXCEPT !.battery_capacity = result[d].val[2]]
      ]_vars

\* C2: for every report with tag 25 (29), the decode step sets
\* output_wattage (output_va) to byte1 + byte2*256 and changes no other
\* field.
C2_Tags25And29SetLittleEndian ==
    [][\A d \in Devs :
         /\ (DecodeStep(d) /\ Tag(d) = 25) =>
               /\ Len(result[d].val) >= 3
               /\ state' = [state EXCEPT !.output_wattage =
                               result[d].val[2] + result[d].val[3] * 256]
         /\ (DecodeStep(d) /\ Tag(d) = 29) =>
               /\ Len(result[d].val) >= 3
               /\ state' = [state EXCEPT !.output_va =
                               result[d].val[2] + result[d].val[3] * 256]
      ]_vars

\* What does hold of tags 8, 25 and 29: a report long enough to hold the
\* bytes of its field sets exactly that field.
LongEnoughReportsSetTheirField ==
    [][\A d \in Devs :
         (DecodeStep(d) /\ Carried(result[d].val).some) =>
             /\ Tag(d) = 8 =>
                   state' = [state EXCEPT !.battery_capacity = result[d].val[2]]
             /\ Tag(d) = 25 =>
                   state' = [state EXCEPT !.output_wattage =
                               result[d].val[2] + result[d].val[3] * 256]
             /\ Tag(d) = 29 =>
                   state' = [state EXCEPT !.output_va =
                               result[d].val[2] + result[d].val[3] * 256]
      ]_vars

\* C3: for every report whose tag is not 8, 25 or 29, the decode step
\* changes no field of the record, takes no lock, and leaves the loop
\* waiting in its next timed read.
C3_OtherTagsChangeNothing ==
    [][\A d \in Devs :
         (DecodeStep(d) /\ Tag(d) \notin {8, 25, 29}) =>
             /\ state' = state
             /\ writer' = writer
             /\ lpc'[d] = "waiting"
      ]_vars

C3_Witness ==
    \E d \in Devs :
        /\ lpc[d] = "waiting"
        /\ last[d] = <<"ignored", 7>>
        /\ state.battery_capacity = 1
        /\ state.output_wattage = 256

\* C4: decoding is idempotent: decoding the report just decoded once more,
\* on the record the first decoding left, gives that same record (a
\* decoding that panics leaves the record as it was).
C4_DecodeIdempotent ==
    [][\A d \in Devs :
         DecodeStep(d) =>
             IF lpc'[d] = "panicked"
             THEN state' = state
             ELSE Decode(state', result[d].val) = state'
      ]_vars

\* the report under the lock carries the value its field already got from
\* an earlier report of the only device
C4_Witness ==
    /\ devices = <<Ups7>>
    /\ lpc[1] = "write"
    /\ result[1].val = <<29, 1, 1>>
    /\ state.output_va = 257
    /\ state.output_wattage = 1

\* C5: a read that ends in a timeout changes no field of the record and
\* does not stop the loop: the loop goes back to waiting in a new read.
C5_TimeoutChangesNothing ==
    /\ [](\A d \in Devs :
            (lpc[d] = "match" /\ result[d] = Timeout) => ENABLED LoopTimeout(d))
    /\ [][\A d \in Devs :
            /\ (lpc[d] = "waiting" /\ result'[d] = Timeout) =>
                  (state' = state /\ lpc'[d] = "match")
            /\ (lpc[d] = "match" /\ result[d] = Timeout /\ lpc'[d] # "match") =>
                  (state' = state /\ lpc'[d] = "waiting")
         ]_vars

C5_Witness ==
    \E d \in Devs :
        /\ lpc[d] = "waiting"
        /\ last[d] = <<"timeout">>
        /\ state.battery_capacity = 1

\* C6: a read error other than a timeout stops the loop that met it and
\* nothing else: the record, the lock, the ticker and the other loops are
\* as they were; a stopped loop stays stopped and holds no lock; the
\* ticker and the other loops can still take their steps.
C6_ErrorStopsOnlyItsLoop ==
    /\ [](\A d \in Devs : lpc[d] = "stopped" =>
            /\ writer # SniffTask(d)
            /\ ~ENABLED sniff(d)
            /\ tpc = "incr" => ENABLED TickIncr
            /\ (tpc = "sleep" /\ state.uptime < MaxUptime) => ENABLED TickWake
            /\ \A e \in Devs \ {d} :
                  /\ lpc[e] = "waiting" => ENABLED LoopRead(e)
                  /\ lpc[e] = "write" => ENABLED LoopWrite(e))
    /\ [][\A d \in Devs :
            /\ (lpc[d] = "match" /\ result[d] = Other /\ lpc'[d] # "match") =>
                  /\ lpc'[d] = "stopped"
                  /\ \A e \in Devs \ {d} : lpc'[e] = lpc[e]
                  /\ UNCHANGED <<state, writer, readers, tpc, mpc, rpc>>
            /\ lpc[d] = "stopped" => lpc'[d] = "stopped"
         ]_vars

\* one loop has stopped; the other is about to write and the ticker is due
C6_Witness ==
    /\ devices = <<Ups2, Ups3>>
    /\ lpc[1] = "stopped"
    /\ state.battery_capacity = 1
    /\ lpc[2] = "write"
    /\ tpc = "lock"

\* C7: uptime never decreases; it changes only in the ticker's step, by
\* exactly 1, and that step changes no other field.
C7_UptimeMonotone ==
    [][/\ state'.uptime >= state.uptime
       /\ state'.uptime # state.uptime =>
             /\ tpc = "incr" /\ tpc' = "unlock"
             /\ state' = [state EXCEPT !.uptime = @ + 1]
      ]_vars

C7_Witness ==
    /\ state.uptime = 1
    /\ state.status = "running"
    /\ state.output_wattage = 257

\* the tasks that are between taking and dropping a write guard, and the
\* requests between taking and dropping a read guard, by their position
WriteHolders ==
    (IF tpc \in {"incr", "unlock"} THEN {TickerTask} ELSE {})
    \cup (IF mpc \in {"status", "device_name", "vendor_id", "product_id",
                      "unlock"}
          THEN {MainTask} ELSE {})
    \cup {SniffTask(d) : d \in {e \in Devs : lpc[e] \in {"write", "unlock"}}}

ReadHolders == {r \in Requests : rpc[r] \in {"clone", "return"}}

\* C8: a writer and a reader never hold the lock together, nor do two
\* writers; the record changes only in a step of the task holding the
\* write lock; the snapshot a request returns is the record as it stands.
C8_SnapshotConsistent ==
    /\ [](/\ Cardinality(WriteHolders) <= 1
           /\ WriteHolders # {} => ReadHolders = {}
           /\ WriteHolders = (IF writer = Nobody THEN {} ELSE {writer})
           /\ ReadHolders = readers
           /\ \A r \in Requests : rpc[r] = "return" => response[r].body = state)
    /\ [][state' # state => (writer # Nobody /\ writer \in WriteHolders)]_vars

C8_Witness ==
    \E r \in Requests :
        /\ rpc[r] = "return"
        /\ response[r].body.status = "running"
        /\ response[r].body.uptime = 1
        /\ response[r].body.output_va = 257
        /\ tpc = "sleep"
        /\ \E d \in Devs : lpc[d] = "match" /\ result[d].ok /\ result[d].val = <<8, 1>>

Field(t) ==
    IF t = 8 THEN state.battery_capacity
    ELSE IF t = 25 THEN state.output_wattage
    ELSE state.output_va

\* C9: with a single matched device and no report in flight, each numeric
\* field is the value carried by the last report with its tag, and 0 when
\* no report with that tag has arrived.
C9_FieldsHoldLastObserved ==
    (Cardinality(Matched) = 1 /\ \A d \in Devs : Quiescent(d)) =>
        \A t \in {8, 25, 29} :
            IF observed[t].some
            THEN observed[t].val = Some(Field(t))
            ELSE Field(t) = 0

\* What does hold: the fields follow the last observed reports as long as
\* the loop has not panicked on a short one.
FieldsHoldLastObservedUntilPanic ==
    (Cardinality(Matched) = 1
     /\ \A d \in Devs : Quiescent(d) /\ lpc[d] # "panicked") =>
        \A t \in {8, 25, 29} :
            IF observed[t].some
            THEN observed[t].val = Some(Field(t))
            ELSE Field(t) = 0

NoMatch == Matched = {}

\* C10: every response is 200 with the current record; when no device
\* matched, the record shows the startup defaults.
C10_AlwaysASnapshot ==
    \A r \in Requests :
        /\ rpc[r] = "clone" => ENABLED ReadClone(r)
        /\ rpc[r] = "return" =>
              /\ response[r].code = 200
              /\ response[r].body = state
              /\ NoMatch =>
                    /\ response[r].body.status = "starting"
                    /\ response[r].body.device_name = <<>>
                    /\ response[r].body.vendor_id = 0
                    /\ response[r].body.product_id = 0
                    /\ response[r].body.battery_capacity = 0
                    /\ response[r].body.output_wattage = 0
                    /\ response[r].body.output_va = 0

C10_Witness ==
    \E r \in Requests :
        /\ devices = <<Hub>>
        /\ rpc[r] = "return"
        /\ response[r].code = 200
        /\ response[r].body.uptime = 1

\* C11: whenever a read returns n > 0 bytes, whatever the tag and the
\* length, the loop decodes the report and goes back to waiting in a new
\* timed read (for tags 8, 25, 29 by way of dropping the write guard); no
\* report ends the loop.
C11_EveryReportReturnsToWaiting ==
    /\ [](\A d \in Devs : lpc[d] = "unlock" => ENABLED LoopRelease(d))
    /\ [][\A d \in Devs :
            /\ DecodeStep(d) => lpc'[d] \in {"waiting", "unlock"}
            /\ (lpc[d] = "unlock" /\ lpc'[d] # "unlock") => lpc'[d] = "waiting"
         ]_vars

\* What does hold: a report long enough for its tag brings the loop back to
\* waiting.
LongEnoughReportsReturnToWaiting ==
    [][\A d \in Devs :
         (DecodeStep(d) /\ (Recognized(result[d].val) => Carried(result[d].val).some))
             => lpc'[d] \in {"waiting", "unlock"}
      ]_vars

\* C12: decoding is synchronous with reading: a loop waiting in a read holds
\* no write guard and no undecoded report; a read returns only to a loop
\* that is waiting; the field of report k is in the record before the guard
\* is dropped, and the guard is dropped in the step that takes the loop back
\* to its next read.
C12_DecodeSynchronous ==
    /\ [](\A d \in Devs :
            /\ lpc[d] = "waiting" =>
                  (writer # SniffTask(d) /\ result[d] = NoResult)
            /\ lpc[d] = "unlock" =>
                  /\ writer = SniffTask(d)
                  /\ Some(Field(Tag(d))) = Carried(result[d].val))
    /\ [][\A d \in Devs :
            /\ (result'[d] # result[d] /\ result'[d] # NoResult) =>
                  (lpc[d] = "waiting" /\ result[d] = NoResult)
            /\ (lpc[d] = "unlock" /\ lpc'[d] # "unlock") =>
                  /\ lpc'[d] = "waiting"
                  /\ writer' = Nobody
                  /\ state' = state
         ]_vars

\* report k (tag 25) is in the record and report k+1 has been read
C12_Witness ==
    /\ devices = <<Ups1>>
    /\ lpc[1] = "match"
    /\ result[1] = Ok(<<8, 1>>)
    /\ state.output_wattage = 256
    /\ state.battery_capacity = 0
    /\ writer # SniffTask(1)

\* s has the three characters C, P, S in a row
HasCPS(s) ==
    \E i \in 1..(Len(s) - 2) : s[i] = "C" /\ s[i + 1] = "P" /\ s[i + 2] = "S"

\* t is s without its trailing NULs
Trimmed(t, s) ==
    /\ Len(t) <= Len(s)
    /\ SubSeq(s, 1, Len(t)) = t
    /\ \A i \in (Len(t) + 1)..Len(s) : s[i] = NUL
    /\ t = <<>> \/ t[Len(t)] # NUL

\* C13: a device the locator has gone past has a loop exactly when its
\* composed name contains "CPS"; when a loop is started the record already
\* holds status "running" and the device's trimmed name, vendor_id and
\* product_id, and main has dropped its guard; while main is at a device
\* whose name has no "CPS" it takes no lock, and its step past the device
\* writes nothing and starts no loop.
C13_MatchWritesThenStarts ==
    /\ [](\A d \in Devs :
            /\ d < idx => (lpc[d] # "unborn" <=> HasCPS(name(devices[d])))
            /\ d >= idx => lpc[d] = "unborn"
            /\ (d = idx /\ ~HasCPS(name(devices[d]))) =>
                  (mpc = "examine" /\ writer # MainTask))
    /\ [][\A d \in Devs :
            /\ (lpc[d] = "unborn" /\ lpc'[d] # "unborn") =>
                  /\ HasCPS(name(devices[d]))
                  /\ state.status = "running"
                  /\ Trimmed(state.device_name, name(devices[d]))
                  /\ state.vendor_id = devices[d].vendor_id
                  /\ state.product_id = devices[d].product_id
                  /\ writer # MainTask
                  /\ state' = state
            /\ (idx = d /\ idx' # idx /\ ~HasCPS(name(devices[d]))) =>
                  (state' = state /\ lpc' = lpc /\ writer' = writer)
         ]_vars

\* the loop of a device whose product string ends in NULs has been started
C13_Witness ==
    /\ devices = <<Ups1>>
    /\ lpc[1] = "bind"
    /\ state.status = "running"
    /\ state.device_name = <<"C", "P", "S", " ", "U", "P", "S">>
    /\ Len(name(devices[1])) = 9
    /\ state.vendor_id = 1892
    /\ state.product_id = 1281

\* C14: a device that cannot be opened gets the name "<unknown>" and never
\* a loop; while main is at it, main holds no lock and can step past it;
\* that step writes nothing, starts nothing and goes to the next device (or
\* to the server after the last); when enumeration is over every device
\* whose name contains "CPS" has had its loop started.
C14_UnopenableDeviceSkipped ==
    /\ [](\A d \in Devs : ~devices[d].open_ok =>
            /\ name(devices[d]) = UNKNOWN
            /\ lpc[d] = "unborn"
            /\ idx = d =>
                  (mpc = "examine" /\ writer # MainTask /\ ENABLED LocSkip)
            /\ idx > d =>
                  /\ mpc # "examine" \/ idx > Len(devices) \/
                        ENABLED (LocSkip \/ LocMatch)
                  /\ mpc = "serve" =>
                        \A e \in Devs :
                            HasCPS(name(devices[e])) => lpc[e] # "unborn")
    /\ [][\A d \in Devs :
            (~devices[d].open_ok /\ idx = d /\ idx' # idx) =>
                /\ state' = state
                /\ lpc' = lpc
                /\ writer' = writer
                /\ idx' = d + 1
                /\ mpc' = IF d < Len(devices) THEN "examine" ELSE "serve"
         ]_vars

\* the device after the one that cannot be opened is being monitored
C14_Witness ==
    /\ devices = <<Hub, Locked, Ups2>>
    /\ mpc = "serve"
    /\ lpc[2] = "unborn"
    /\ lpc[3] = "waiting"
    /\ state.product_id = 1537
    /\ state.battery_capacity = 1

\* eps[i] is the last inbound endpoint of eps
LastIn(eps, i) ==
    /\ eps[i].direction = In
    /\ \A j \in (i + 1)..Len(eps) : eps[j].direction # In

NoInbound(eps) == \A i \in 1..Len(eps) : eps[i].direction # In

\* C15: a loop that is past its setup is bound to the address and transfer
\* type of the last inbound endpoint in the order of the walk; setup with
\* every call granted ends in that binding when there is an inbound
\* endpoint, and in failure when there is none: such a device's loop never
\* reads, never takes the lock and never writes.
C15_LastInboundEndpoint ==
    /\ [](\A d \in Devs :
            LET eps == EndpointsInOrder(devices[d].config)
            IN  /\ lpc[d] \notin {"unborn", "bind", "failed"} =>
                      \E i \in 1..Len(eps) :
                          /\ LastIn(eps, i)
                          /\ in_endpoint[d] =
                                Some(<<eps[i].address, eps[i].transfer_type>>)
                /\ NoInbound(eps) =>
                      /\ lpc[d] \in {"unborn", "bind", "failed"}
                      /\ in_endpoint[d] = NoneOpt
                      /\ result[d] = NoResult
                      /\ last[d] = <<>>
                      /\ writer # SniffTask(d))
    /\ [][\A d \in Devs :
            (lpc[d] = "bind" /\ lpc'[d] # "bind" /\ Bind(devices[d]).ok) =>
                /\ state' = state
                /\ lpc'[d] = IF NoInbound(EndpointsInOrder(devices[d].config))
                             THEN "failed" ELSE "waiting"
         ]_vars

\* the unit with three inbound endpoints is read on the last of them
C15_Witness ==
    /\ devices = <<Ups4>>
    /\ lpc[1] = "waiting"
    /\ in_endpoint[1] = Some(<<131, Interrupt>>)
    /\ state.output_wattage = 1

FieldOf(st, t) ==
    IF t = 8 THEN st.battery_capacity
    ELSE IF t = 25 THEN st.output_wattage
    ELSE st.output_va

\* loop d commits its write: the assignment under the guard
Commit(d) == lpc[d] = "write" /\ lpc'[d] = "unlock"

\* C16: the loops of all matched devices write the same three fields with
\* no arbitration beyond the lock: a loop with a report to write takes the
\* free lock when its turn comes, whatever the other loops hold; every
\* commit puts its
\* report's value in the field; a field changes only in a commit of some
\* loop, so it always holds the value of the last commit to it, whichever
\* device made it.
C16_LastWriteWins ==
    /\ [](\A d \in Devs :
            (Decoding(d) /\ lpc[d] = "match" /\ Recognized(result[d].val)
             /\ LockFree /\ First(SniffTask(d))) => ENABLED LoopAcquire(d))
    /\ [][/\ \A d \in Devs :
                Commit(d) =>
                    Some(FieldOf(state', Tag(d))) = Carried(result[d].val)
          /\ \A t \in {8, 25, 29} :
                FieldOf(state', t) # FieldOf(state, t) =>
                    \E d \in Devs : Commit(d) /\ Tag(d) = t
         ]_vars

\* the record names the second unit and holds the first unit's battery
\* value and the second unit's VA value; the second unit is about to
\* overwrite the battery value
C16_Witness ==
    /\ devices = <<Ups2, Ups3>>
    /\ state.product_id = 1538
    /\ state.device_name = <<"C", "P", "S", " ", "3">>
    /\ state.battery_capacity = 1
    /\ state.output_va = 257
    /\ lpc[1] = "waiting"
    /\ last[1] = <<"decoded", 8>>
    /\ lpc[2] = "match"
    /\ result[2] = Ok(<<8, 0>>)

\* loop d is bound to an endpoint that is neither bulk nor interrupt
Unsupported(d) ==
    /\ in_endpoint[d].some
    /\ in_endpoint[d].val[2] \notin {Bulk, Interrupt}

\* C17: a loop bound to an endpoint that is neither bulk nor interrupt
\* gets a non-timeout error from its first read and stops: it is waiting
\* only before that read, the read returns nothing but the error, the loop
\* can then only stop, it never holds a report or the lock, and no step of
\* it changes the record; when it is the only matched device the telemetry
\* fields stay 0.
C17_UnsupportedTransferStops ==
    /\ [](\A d \in Devs : Unsupported(d) =>
            /\ lpc[d] \in {"waiting", "match", "stopped"}
            /\ lpc[d] = "waiting" => (last[d] = <<>> /\ result[d] = NoResult)
            /\ lpc[d] = "match" =>
                  (result[d] = Other /\ ENABLED LoopError(d)
                   /\ ~ENABLED LoopTimeout(d))
            /\ lpc[d] = "stopped" => last[d] = <<"error">>
            /\ ~Decoding(d)
            /\ writer # SniffTask(d)
            /\ Cardinality(Matched) = 1 =>
                  \A t \in {8, 25, 29} : Field(t) = 0)
    /\ [][\A d \in Devs :
            (Unsupported(d) /\ lpc'[d] # lpc[d]) =>
                /\ state' = state
                /\ <<lpc[d], lpc'[d]>> \in
                      {<<"waiting", "match">>, <<"match", "stopped">>}
         ]_vars

\* the unit bound to its isochronous endpoint has stopped
C17_Witness ==
    /\ devices = <<UpsIso>>
    /\ in_endpoint[1] = Some(<<131, Isochronous>>)
    /\ lpc[1] = "stopped"
    /\ last[1] = <<"error">>
    /\ state.status = "running"
    /\ state.product_id = 1540

\* one of the calls sniff makes on device d before its loop is refused, or
\* the device has no inbound endpoint
RefusedSetup(d) ==
    LET sn == devices[d].sniff
    IN  \/ ~sn.open
        \/ ~sn.kernel_driver_active.ok
        \/ (sn.kernel_driver_active.ok /\ sn.kernel_driver_active.val
            /\ ~sn.detach)
        \/ ~sn.claim
        \/ ~sn.config
        \/ NoInbound(EndpointsInOrder(devices[d].config))

\* C18: a device whose setup is refused never gets past it: its loop never
\* reads, never takes the lock, never writes; the step in which its task
\* fails changes nothing else; and with that task dead the locator, the
\* other loops, the ticker and the responder can all still take their
\* steps.
C18_BindingErrorStopsOnlyItsDevice ==
    /\ [](\A d \in Devs : RefusedSetup(d) =>
            /\ lpc[d] \in {"unborn", "bind", "failed"}
            /\ in_endpoint[d] = NoneOpt
            /\ result[d] = NoResult
            /\ last[d] = <<>>
            /\ writer # SniffTask(d)
            /\ lpc[d] = "failed" =>
                  /\ ~ENABLED sniff(d)
                  /\ (mpc = "examine" /\ idx <= Len(devices)) =>
                        ENABLED (LocSkip \/ LocMatch)
                  /\ mpc = "spawn" => ENABLED LocSpawn
                  /\ (mpc = "lock" /\ LockFree /\ First(MainTask)) =>
                        ENABLED LocAcquire
                  /\ tpc = "incr" => ENABLED TickIncr
                  /\ (tpc = "sleep" /\ state.uptime < MaxUptime) =>
                        ENABLED TickWake
                  /\ \A e \in Devs \ {d} :
                        /\ lpc[e] = "bind" => ENABLED LoopBind(e)
                        /\ lpc[e] = "waiting" => ENABLED LoopRead(e)
                        /\ lpc[e] = "write" => ENABLED LoopWrite(e)
                  /\ \A r \in Requests :
                        /\ (mpc = "serve" /\ rpc[r] = "idle") =>
                              ENABLED Request(r)
                        /\ (rpc[r] = "lock" /\ writer = Nobody
                            /\ First(RequestTask(r))) =>
                              ENABLED ReadAcquire(r)
                        /\ rpc[r] = "clone" => ENABLED ReadClone(r))
    /\ [][\A d \in Devs :
            /\ (RefusedSetup(d) /\ lpc[d] = "bind" /\ lpc'[d] # "bind") =>
                  /\ lpc'[d] = "failed"
                  /\ \A e \in Devs \ {d} : lpc'[e] = lpc[e]
                  /\ UNCHANGED <<state, writer, readers, tpc, mpc, idx, rpc>>
            /\ lpc[d] = "failed" => lpc'[d] = "failed"
         ]_vars

\* two units have failed their setup; the third is writing, the server is
\* answering a request and the ticker has ticked
C18_Witness ==
    /\ devices = <<BadOpen, BadKda, Ups3>>
    /\ lpc[1] = "failed"
    /\ lpc[2] = "failed"
    /\ lpc[3] = "unlock"
    /\ state.output_va = 257
    /\ state.uptime = 1
    /\ \E r \in Requests : rpc[r] = "lock"

\* the locator has made the status write of its match of device d: it is
\* past the device, or at it and past line 63
MatchWritten(d) ==
    /\ HasCPS(name(devices[d]))
    /\ \/ d < idx
       \/ d = idx /\ mpc \in {"device_name", "vendor_id", "product_id",
                                "unlock", "spawn"}

WantsWrite(d) ==
    /\ d \in Devs
    /\ lpc[d] = "match"
    /\ result[d].ok
    /\ result[d].val # <<>>
    /\ Recognized(result[d].val)

\* C19: no task holds the lock while it sleeps, reads from USB, starts a
\* loop or does anything but its own assignments: the ticker asleep or
\* about to lock holds nothing, a loop holds the write lock only between
\* blocking_write and the end of its if block, main only between lines 62
\* and 67, a request only while it clones; whoever holds the lock can
\* always take its next step, so the lock is always given back; and under
\* fair scheduling the ticker, the locator, every loop and every request
\* that asks for the lock gets it.
C19_LockNeverHeldAcrossBlocking ==
    /\ [](/\ tpc \in {"spawned", "lock", "sleep"} => writer # TickerTask
          /\ mpc \in {"examine", "lock", "spawn", "serve"} =>
                writer # MainTask
          /\ \A d \in Devs :
                /\ lpc[d] \notin {"write", "unlock"} => writer # SniffTask(d)
                /\ writer = SniffTask(d) =>
                      ENABLED (LoopWrite(d) \/ LoopRelease(d))
          /\ \A r \in Requests :
                /\ rpc[r] \in {"idle", "lock"} => r \notin readers
                /\ r \in readers => ENABLED (ReadClone(r) \/ ReadReturn(r))
          /\ writer = TickerTask => ENABLED (TickIncr \/ TickRelease)
          /\ writer = MainTask => ENABLED (LocWrite \/ LocRelease)
          /\ LockFree =>
                \/ queue = <<>>
                \/ ENABLED (TickAcquire \/ LocAcquire)
                \/ \E d \in Devs : ENABLED LoopAcquire(d)
                \/ \E r \in Requests : ENABLED ReadAcquire(r))
    /\ (tpc = "lock") ~> (writer = TickerTask)
    /\ (mpc = "lock") ~> (writer = MainTask)
    /\ \A d \in LiveUnits :
          WantsWrite(d) ~> (writer = SniffTask(d))
    /\ \A r \in Requests :
          (rpc[r] = "lock") ~> (r \in readers)

\* both loops and a request are waiting for the lock the ticker holds
C19_Witness ==
    /\ devices = <<Ups5, Ups6>>
    /\ writer = TickerTask
    /\ WantsWrite(1)
    /\ WantsWrite(2)
    /\ \E r \in Requests : rpc[r] = "lock"

====
